---- MODULE Spec2Model ----
(***************************************************************************)
(* Consistency-group snapshot coordination of librbd (src/librbd/Group.cc).*)
(*                                                                         *)
(* One group with a header object (sequence counter, group-snapshot        *)
(* records, membership map) and a set of images, each with its own         *)
(* snapshot table.  Clients run group_snap_create and group_snap_remove    *)
(* step by step: one step per object-store call, per asynchronous          *)
(* per-image operation and per wait loop.  Every call that can fail in the *)
(* code fails nondeterministically here.                                   *)
(***************************************************************************)
EXTENDS Integers, Sequences, FiniteSets, TLC

(* ---------------------------- bounds ----------------------------------- *)
\* number of sequence numbers the group header may hand out
MaxSeq == 2
\* number of group ids group_create may draw from
MaxGid == 2
\* number of page requests one listing loop may issue
MaxPages == 3

Clients == {"c1", "c2"}
Images == {1, 2}
Names == {"s1", "s2"}

(* ------------------------ program constants ---------------------------- *)
ENOENT == -2
EIO == -5
EAGAIN == -11
EBUSY == -16
EEXIST == -17
max_read == 1024

\* errors an object-store call or a per-image operation may fail with
InjErr == {EIO}
\* not a return value: the process died on undefined behaviour
CRASH == 1
\* CEPH_NOSNAP, (uint64_t)-2, returned by get_snap_id for an unknown name
NOSNAP == -2

VARIABLES
  snap_seq,     \* group header: sequence counter
  group_snaps,  \* group header: snapshot id -> GroupSnapshot record
  members,      \* group header: image -> "NONE" | "INCOMPLETE" | "ATTACHED"
  img_snaps,    \* image -> set of [id, name] snapshots of that image
  img_seq,      \* image -> last snapshot id the image allocated
  loc,          \* client -> locals of the call in progress
  hist,         \* name of the record the last call removed cleanly, or ""
  alloc_log,    \* every sequence number handed out, in order
  group_dir,    \* group directory: id the group name maps to, 0 without entry
  header,       \* the group header object exists
  img_group,    \* image header: id of the group it refers back to, 0 for none
  img_dir,      \* image directory: the image has a name -> id entry
  mloc,         \* client -> locals of the membership call in progress
  codec,        \* one encode / decode run of the metadata codec
  pager         \* one run of a paginated listing loop

vars == <<snap_seq, group_snaps, members, img_snaps, img_seq, loc, hist, alloc_log,
          group_dir, header, img_group, img_dir, mloc, codec, pager>>

\* what the snapshot calls never touch
Mem == <<group_dir, header, img_group, img_dir, mloc>>
Aux == <<hist, Mem, codec, pager>>

(* ----------------------------- helpers --------------------------------- *)
Min(S) == CHOOSE x \in S : \A y \in S : x <= y

RECURSIVE SortedSeq(_)
SortedSeq(S) == IF S = {} THEN <<>> ELSE <<Min(S)>> \o SortedSeq(S \ {Min(S)})

FirstN(s, k) == IF Len(s) <= k THEN s ELSE SubSeq(s, 1, k)

Fill(k, v) == [i \in 1..k |-> v]

Range(s) == {s[i] : i \in DOMAIN s}

\* the per-image snapshot name "<snap_name>_<group_id>_<snap_seq>"
ind_snap_name(name, seq) == <<name, seq>>

\* ImageCtx::get_snap_id: id of the snapshot called nm on image im
get_snap_id(im, nm) ==
  IF \E s \in img_snaps[im] : s.name = nm
  THEN (CHOOSE s \in img_snaps[im] : s.name = nm).id
  ELSE NOSNAP

\* ImageCtx::get_snap_name: result code of resolving snapshot id sid on im
get_snap_name_r(im, sid) ==
  IF \E s \in img_snaps[im] : s.id = sid THEN 0 ELSE ENOENT

get_snap_name(im, sid) == (CHOOSE s \in img_snaps[im] : s.id = sid).name

\* cls_client::group_snap_next_seq: the number the header hands out next
group_snap_next_seq_mut(counter) == IF counter = 0 THEN 1 ELSE counter
group_snap_next_seq(counter) == counter + 1

\* cls_client::group_snap_list: one page of records, in id order
cls_group_snap_list(recs, max) ==
  LET ids == FirstN(SortedSeq(DOMAIN recs), max)
  IN  [i \in 1..Len(ids) |-> [id |-> ids[i], name |-> recs[ids[i]].name,
                              state |-> recs[ids[i]].state,
                              snaps |-> recs[ids[i]].snaps]]

\* group_snap_list_cls: the loop body runs once, its page is the result
group_snap_list_cls(recs) == cls_group_snap_list(recs, max_read)

\* cls_client::group_image_list + the paging loop of group_image_list:
\* every entry of the membership map, whatever its link state
group_image_list(mem) == SortedSeq({im \in Images : mem[im] # "NONE"})

\* group_snap_name_check_duplicate on a successful listing
name_check_duplicate_mut(snaps, name) == 0
name_check_duplicate(snaps, name) ==
  IF \E i \in DOMAIN snaps : snaps[i].name = name THEN EEXIST ELSE 0

\* the last failing result of a wait loop that overwrites ret_code
RECURSIVE LastError(_)
LastError(res) ==
  IF res = <<>> THEN 0
  ELSE IF res[Len(res)] < 0 THEN res[Len(res)]
  ELSE LastError(SubSeq(res, 1, Len(res) - 1))

IdleLoc ==
  [pc |-> "idle", op |-> "none", snap_name |-> "", n |-> 0, images |-> <<>>,
   ictxs |-> <<>>, on_finishes |-> <<>>, ops |-> <<>>, res |-> <<>>,
   opened_ok |-> <<>>, ret_code |-> 0, ret_code_blk |-> 0, snap_seq |-> 0,
   gs |-> 0, gs_state |-> "", gs_snaps |-> <<>>, image_snaps |-> <<>>,
   k |-> 0, ret |-> 0, faulted |-> FALSE, ub |-> FALSE, dropped |-> FALSE,
   pre |-> "none", saved |-> FALSE, partial |-> FALSE,
   blocked |-> <<>>, locked |-> <<>>]

\* locals of a membership call: group_create, group_remove, group_image_add,
\* group_image_remove
IdleMLoc ==
  [pc |-> "idle", op |-> "none", im |-> 0, group_id |-> 0, r |-> 0,
   images |-> <<>>, k |-> 0, ret |-> 0, pre |-> "NONE", pre_ref |-> 0,
   step2_failed |-> FALSE, undone |-> FALSE, hdr_failed |-> FALSE,
   removed_hdr |-> FALSE, dangling |-> FALSE]

IdleCodec == [pc |-> "idle"]

IdlePager == [pc |-> "idle"]

\* the group exists, one id, every attached image refers back to it
Init ==
  /\ snap_seq = 0
  /\ group_snaps = <<>>
  /\ members \in [Images -> {"NONE", "ATTACHED"}]
  /\ img_snaps = [im \in Images |-> {}]
  /\ img_seq = [im \in Images |-> 0]
  /\ loc = [c \in Clients |-> IdleLoc]
  /\ hist = ""
  /\ alloc_log = <<>>
  /\ group_dir = 1
  /\ header = TRUE
  /\ img_group = [im \in Images |-> IF members[im] = "ATTACHED" THEN 1 ELSE 0]
  /\ img_dir = [im \in Images |-> TRUE]
  /\ mloc = [c \in Clients |-> IdleMLoc]
  /\ codec = IdleCodec
  /\ pager = IdlePager

Set(c, r) == loc' = [loc EXCEPT ![c] = r]

\* a call returns r without reaching its cleanup label
ReturnEarly(c, r, f) ==
  Set(c, [loc[c] EXCEPT !.pc = "done", !.ret = r, !.faulted = @ \/ f])

\* the wait loop has passed every completion: no operation is in flight
AllDone_mut(c) == TRUE
AllDone(c) == \A i \in DOMAIN loc[c].ops : loc[c].ops[i] # "inflight"

Store == <<snap_seq, group_snaps, members, img_snaps, img_seq, alloc_log>>

Faults == {0} \cup InjErr

\* results of a lock request: granted, or one of two different errors
LockFaults == Faults \cup {EBUSY}

Upsert(recs, id, rec) ==
  [i \in DOMAIN recs \cup {id} |-> IF i = id THEN rec ELSE recs[i]]

\* cls_client::group_snap_save: result code; the header takes no second record
\* under a name another record holds
group_snap_save_mut(recs, id, rec) == 0
group_snap_save(recs, id, rec) ==
  IF \E i \in DOMAIN recs : i # id /\ recs[i].name = rec.name THEN EEXIST ELSE 0

Erase(recs, id) == [i \in DOMAIN recs \ {id} |-> recs[i]]

\* creators that have not reached sequence allocation yet
Unallocated ==
  Cardinality({d \in Clients : loc[d].op = "create" /\ loc[d].snap_seq = 0})

\* state of the record called nm in the header, "none" without one
StateOfName(nm) ==
  IF \E i \in DOMAIN group_snaps : group_snaps[i].name = nm
  THEN group_snaps[CHOOSE i \in DOMAIN group_snaps : group_snaps[i].name = nm].state
  ELSE "none"

(* ------------------------- group_snap_create --------------------------- *)
CallCreate(c, nm) ==
  /\ loc[c].pc = "idle"
  /\ mloc[c].pc = "idle"
  /\ snap_seq + Unallocated < MaxSeq
  /\ Set(c, [IdleLoc EXCEPT !.pc = "c_check", !.op = "create", !.snap_name = nm,
               !.pre = StateOfName(nm)])
  /\ UNCHANGED <<Store, Aux>>

\* group_snap_name_check_duplicate: list the records, compare the names
CreateNameCheck(c) ==
  /\ loc[c].pc = "c_check"
  /\ \E f \in Faults :
       IF f < 0 THEN ReturnEarly(c, f, TRUE)
       ELSE LET r == name_check_duplicate(group_snap_list_cls(group_snaps),
                                          loc[c].snap_name)
            IN  IF r < 0 THEN ReturnEarly(c, r, FALSE)
                ELSE Set(c, [loc[c] EXCEPT !.pc = "c_getid"])
  /\ UNCHANGED <<Store, Aux>>

\* dir_get_id of the group
CreateGetId(c) ==
  /\ loc[c].pc = "c_getid"
  /\ \E f \in Faults :
       IF f < 0 THEN ReturnEarly(c, f, TRUE)
       ELSE Set(c, [loc[c] EXCEPT !.pc = "c_list"])
  /\ UNCHANGED <<Store, Aux>>

\* group_image_list, then the loop that starts the open of every image
CreateOpen(c) ==
  /\ loc[c].pc = "c_list"
  /\ \E f \in Faults :
       IF f < 0 THEN ReturnEarly(c, f, TRUE)
       ELSE LET images == group_image_list(members)
                n == Len(images)
            IN  Set(c, [loc[c] EXCEPT !.pc = "c_open", !.images = images,
                          !.n = n, !.ictxs = Fill(n, "ctx"),
                          !.on_finishes = Fill(n, "live"),
                          !.ops = Fill(n, "inflight"), !.res = Fill(n, 0),
                          !.opened_ok = Fill(n, TRUE),
                          !.blocked = Fill(n, FALSE),
                          !.locked = Fill(n, FALSE)])
  /\ UNCHANGED <<Store, Aux>>

\* ImageState::open completes on handle i; for group_snap_remove the image
\* found under the looked-up name may be another image than the recorded one
OpenComplete(c, i) ==
  /\ loc[c].pc \in {"c_open", "r_open"}
  /\ i \in DOMAIN loc[c].ops
  /\ loc[c].ops[i] = "inflight"
  /\ \E r \in Faults, same \in BOOLEAN :
       /\ (loc[c].pc = "c_open" \/ r < 0) => same
       /\ Set(c, [loc[c] EXCEPT !.ops[i] = "done", !.res[i] = r,
                    !.opened_ok[i] = same,
                    !.faulted = @ \/ r < 0 \/ ~same])
  /\ UNCHANGED <<Store, Aux>>

NullFailed(c) ==
  [i \in DOMAIN loc[c].ictxs |->
     IF loc[c].res[i] < 0 THEN "null" ELSE loc[c].ictxs[i]]

FreeFailed(c) ==
  [i \in DOMAIN loc[c].on_finishes |->
     IF loc[c].res[i] < 0 THEN "freed" ELSE loc[c].on_finishes[i]]

\* wait for every open; on success go on to block requests
CreateOpenWait(c) ==
  /\ loc[c].pc = "c_open"
  /\ AllDone(c)
  /\ LET ret_code == LastError(loc[c].res)
     IN  IF ret_code # 0
         THEN Set(c, [loc[c] EXCEPT !.pc = "c_cleanup", !.ret_code = ret_code,
                        !.ictxs = NullFailed(c), !.on_finishes = FreeFailed(c)])
         ELSE Set(c, [loc[c] EXCEPT !.pc = "c_block", !.ret_code = 0])
  /\ UNCHANGED <<Store, Aux>>

\* exclusive_lock->block_requests(-EBUSY) on every handle
BlockAll_mut(c) == Fill(loc[c].n, FALSE)
BlockAll(c) == Fill(loc[c].n, TRUE)

CreateBlock(c) ==
  /\ loc[c].pc = "c_block"
  /\ Set(c, [loc[c] EXCEPT !.pc = "c_request", !.blocked = BlockAll(c)])
  /\ UNCHANGED <<Store, Aux>>

\* exclusive_lock->request_lock(on_finishes[i]) on every handle
CreateRequestLock(c) ==
  /\ loc[c].pc = "c_request"
  /\ Set(c, [loc[c] EXCEPT !.pc = "c_lock", !.ops = Fill(loc[c].n, "inflight")])
  /\ UNCHANGED <<Store, Aux>>

\* ExclusiveLock::request_lock completes on handle i
LockComplete(c, i) ==
  /\ loc[c].pc = "c_lock"
  /\ i \in DOMAIN loc[c].ops
  /\ loc[c].ops[i] = "inflight"
  /\ \E r \in LockFaults :
       Set(c, [loc[c] EXCEPT !.ops[i] = "done", !.res[i] = r,
                 !.locked[i] = (r = 0), !.faulted = @ \/ r < 0])
  /\ UNCHANGED <<Store, Aux>>

CreateLockWait(c) ==
  /\ loc[c].pc = "c_lock"
  /\ AllDone(c)
  /\ LET ret_code == LastError(loc[c].res)
     IN  Set(c, [loc[c] EXCEPT !.ret_code = ret_code,
                   !.pc = IF ret_code # 0 THEN "c_cleanup" ELSE "c_seq"])
  /\ UNCHANGED <<Store, Aux>>

\* cls_client::group_snap_next_seq
CreateNextSeq(c) ==
  /\ loc[c].pc = "c_seq"
  /\ \E f \in Faults :
       IF f < 0
       THEN /\ Set(c, [loc[c] EXCEPT !.pc = "c_cleanup", !.ret_code = f,
                         !.faulted = TRUE])
            /\ UNCHANGED <<snap_seq, alloc_log>>
       ELSE LET seq == group_snap_next_seq(snap_seq)
            IN  /\ snap_seq' = seq
                /\ alloc_log' = Append(alloc_log, seq)
                /\ Set(c, [loc[c] EXCEPT !.pc = "c_pending", !.snap_seq = seq])
  /\ UNCHANGED <<group_snaps, members, img_snaps, img_seq, Aux>>

\* the record written first: gs.state = PENDING, gs.snaps empty
PendingRecord_mut(c) ==
  [name |-> loc[c].snap_name, state |-> "COMPLETE", snaps |-> <<>>]
PendingRecord(c) ==
  [name |-> loc[c].snap_name, state |-> "PENDING", snaps |-> <<>>]

DefaultRef == [image_id |-> 0, snap_id |-> 0]

\* group_snap_save of the PENDING record, then snap_create on every image
CreatePending(c) ==
  /\ loc[c].pc = "c_pending"
  /\ \E f \in Faults :
       IF f < 0
       THEN /\ Set(c, [loc[c] EXCEPT !.pc = "c_cleanup", !.ret_code = f,
                         !.faulted = TRUE])
            /\ UNCHANGED group_snaps
       ELSE IF group_snap_save(group_snaps, loc[c].snap_seq, PendingRecord(c)) < 0
       THEN /\ Set(c, [loc[c] EXCEPT !.pc = "c_cleanup",
                         !.ret_code = group_snap_save(group_snaps, loc[c].snap_seq,
                                                      PendingRecord(c))])
            /\ UNCHANGED group_snaps
       ELSE /\ group_snaps' = Upsert(group_snaps, loc[c].snap_seq, PendingRecord(c))
            /\ Set(c, [loc[c] EXCEPT !.pc = "c_snap", !.saved = TRUE,
                         !.image_snaps = Fill(loc[c].n, DefaultRef),
                         !.on_finishes = Fill(loc[c].n, "live"),
                         !.ops = Fill(loc[c].n, "inflight")])
  /\ UNCHANGED <<snap_seq, members, img_snaps, img_seq, Aux, alloc_log>>

\* Operations::snap_create completes on image i
SnapCreateComplete(c, i) ==
  /\ loc[c].pc = "c_snap"
  /\ i \in DOMAIN loc[c].ops
  /\ loc[c].ops[i] = "inflight"
  /\ LET im == loc[c].images[i]
         nm == ind_snap_name(loc[c].snap_name, loc[c].snap_seq)
     IN  \E r \in Faults :
           /\ Set(c, [loc[c] EXCEPT !.ops[i] = "done", !.res[i] = r,
                        !.faulted = @ \/ r < 0])
           /\ IF r < 0 THEN UNCHANGED <<img_snaps, img_seq>>
              ELSE /\ img_seq' = [img_seq EXCEPT ![im] = @ + 1]
                   /\ img_snaps' = [img_snaps EXCEPT ![im] =
                                      @ \cup {[id |-> img_seq[im] + 1, name |-> nm]}]
  /\ UNCHANGED <<snap_seq, group_snaps, members, Aux, alloc_log>>

\* the references collected by the wait loop for the images that succeeded
CollectRefs(c) ==
  [i \in 1..loc[c].n |->
     IF loc[c].res[i] < 0 THEN loc[c].image_snaps[i]
     ELSE [image_id |-> loc[c].images[i],
           snap_id |-> get_snap_id(loc[c].images[i],
                         ind_snap_name(loc[c].snap_name, loc[c].snap_seq))]]

\* the test that sends the call to cleanup after the snap_create wait loop
SnapPhaseFailed_mut(ret_code) == FALSE
SnapPhaseFailed(ret_code) == ret_code # 0

CreateSnapWait(c) ==
  /\ loc[c].pc = "c_snap"
  /\ AllDone(c)
  /\ LET ret_code == LastError(loc[c].res)
     IN  Set(c, [loc[c] EXCEPT !.ret_code = ret_code,
                   !.image_snaps = CollectRefs(c),
                   !.pc = IF SnapPhaseFailed(ret_code) THEN "c_cleanup"
                          ELSE "c_commit"])
  /\ UNCHANGED <<Store, Aux>>

\* the record written last: gs.snaps = image_snaps, gs.state = COMPLETE
CompleteRecord_mut(c) ==
  [name |-> loc[c].snap_name, state |-> "COMPLETE", snaps |-> <<>>]
CompleteRecord(c) ==
  [name |-> loc[c].snap_name, state |-> "COMPLETE", snaps |-> loc[c].image_snaps]

\* group_snap_save of the COMPLETE record; falls through to cleanup
CreateCommit(c) ==
  /\ loc[c].pc = "c_commit"
  /\ \E f \in Faults :
       IF f < 0
       THEN /\ Set(c, [loc[c] EXCEPT !.pc = "c_cleanup", !.ret_code = f,
                         !.faulted = TRUE])
            /\ UNCHANGED group_snaps
       ELSE IF group_snap_save(group_snaps, loc[c].snap_seq, CompleteRecord(c)) < 0
       THEN /\ Set(c, [loc[c] EXCEPT !.pc = "c_cleanup",
                         !.ret_code = group_snap_save(group_snaps, loc[c].snap_seq,
                                                      CompleteRecord(c))])
            /\ UNCHANGED group_snaps
       ELSE /\ group_snaps' = Upsert(group_snaps, loc[c].snap_seq, CompleteRecord(c))
            /\ Set(c, [loc[c] EXCEPT !.pc = "c_cleanup"])
  /\ UNCHANGED <<snap_seq, members, img_snaps, img_seq, Aux, alloc_log>>

\* handles the cleanup loop closes: index i < n with a non-null handle
CloseAll(c) ==
  [i \in DOMAIN loc[c].ictxs |->
     IF i <= loc[c].n /\ loc[c].ictxs[i] = "ctx" THEN "closed" ELSE loc[c].ictxs[i]]

\* the cleanup loop runs into undefined behaviour: it indexes past the end
\* of ictxs / on_finishes or deletes a completion that was deleted before
CleanupUB(c) ==
  \/ loc[c].n > Len(loc[c].ictxs)
  \/ loc[c].n > Len(loc[c].on_finishes)
  \/ \E i \in DOMAIN loc[c].on_finishes :
       i <= loc[c].n /\ loc[c].on_finishes[i] = "freed"

FreeAll(c) == [i \in DOMAIN loc[c].on_finishes |-> "freed"]

\* cleanup: close every handle, delete every completion, return ret_code
Cleanup(c) ==
  LET ub == loc[c].ub \/ CleanupUB(c)
  IN  \E crash \in BOOLEAN :
        /\ crash => ub
        /\ Set(c, [loc[c] EXCEPT !.pc = "done", !.ictxs = CloseAll(c),
                     !.on_finishes = FreeAll(c), !.ub = ub,
                     !.dropped = \E i \in DOMAIN loc[c].ops :
                                    loc[c].ops[i] = "inflight",
                     !.ret = IF crash THEN CRASH ELSE loc[c].ret_code])

CreateCleanup(c) ==
  /\ loc[c].pc = "c_cleanup"
  /\ Cleanup(c)
  /\ UNCHANGED <<Store, Aux>>

\* the caller takes the result; the next call may start
Return(c) ==
  /\ loc[c].pc = "done"
  /\ hist' = IF /\ loc[c].op = "remove" /\ loc[c].ret = 0
                 /\ loc[c].gs # 0 /\ ~loc[c].faulted
              THEN loc[c].snap_name ELSE ""
  /\ Set(c, IdleLoc)
  /\ UNCHANGED <<Store, Mem, codec, pager>>

(* ------------------------- group_snap_remove --------------------------- *)
CallRemove(c, nm) ==
  /\ loc[c].pc = "idle"
  /\ mloc[c].pc = "idle"
  /\ Set(c, [IdleLoc EXCEPT !.pc = "r_getid", !.op = "remove", !.snap_name = nm])
  /\ UNCHANGED <<Store, Aux>>

\* dir_get_id of the group
RemoveGetId(c) ==
  /\ loc[c].pc = "r_getid"
  /\ \E f \in Faults :
       IF f < 0 THEN ReturnEarly(c, f, TRUE)
       ELSE Set(c, [loc[c] EXCEPT !.pc = "r_list"])
  /\ UNCHANGED <<Store, Aux>>

\* index of the record the lookup loop keeps: the last one with the name
FindSnap(snaps, name) ==
  LET hits == {i \in DOMAIN snaps : snaps[i].name = name}
  IN  IF hits = {} THEN 0 ELSE CHOOSE i \in hits : \A j \in hits : j <= i

\* a reference of the record points to no snapshot of its image
RefMissing(ref) == get_snap_name_r(ref.image_id, ref.snap_id) < 0

\* group_snap_list_cls, the lookup by name, the branch on gs->state
RemoveList(c) ==
  /\ loc[c].pc = "r_list"
  /\ \E f \in Faults :
       IF f < 0 THEN ReturnEarly(c, f, TRUE)
       ELSE LET snaps == group_snap_list_cls(group_snaps)
                g == FindSnap(snaps, loc[c].snap_name)
            IN  IF g = 0 THEN ReturnEarly(c, ENOENT, FALSE)
                ELSE Set(c, [loc[c] EXCEPT
                       !.gs = snaps[g].id, !.gs_state = snaps[g].state,
                       !.gs_snaps = snaps[g].snaps,
                       !.partial = \E j \in DOMAIN snaps[g].snaps :
                                      RefMissing(snaps[g].snaps[j]),
                       !.n = IF snaps[g].state = "COMPLETE"
                             THEN Len(snaps[g].snaps) ELSE Len(snaps),
                       !.pc = IF snaps[g].state = "COMPLETE"
                              THEN "r_open" ELSE "r_cleanup"])
  /\ UNCHANGED <<Store, Aux>>

\* one round of the open loop: dir_get_name of the image, then start its open
RemoveOpenIssue(c) ==
  /\ loc[c].pc = "r_open"
  /\ loc[c].k < loc[c].n
  /\ \E f \in Faults :
       IF f < 0
       THEN Set(c, [loc[c] EXCEPT !.pc = "r_cleanup", !.faulted = TRUE])
       ELSE Set(c, [loc[c] EXCEPT !.k = @ + 1,
                      !.ictxs = Append(@, "ctx"),
                      !.on_finishes = Append(@, "live"),
                      !.ops = Append(@, "inflight"),
                      !.res = Append(@, 0),
                      !.opened_ok = Append(@, TRUE)])
  /\ UNCHANGED <<Store, Aux>>

\* the value the block-local ret_code holds after the open wait loop
OpenWaitCode(res, opened_ok) ==
  LET bad == {i \in DOMAIN res : res[i] < 0 \/ ~opened_ok[i]}
      last == CHOOSE i \in bad : \A j \in bad : j <= i
  IN  IF bad = {} THEN 0
      ELSE IF ~opened_ok[last] THEN EAGAIN ELSE res[last]

\* wait for every open and compare the image ids; a failed open leaves a
\* null handle that the comparison dereferences
RemoveOpenWait(c) ==
  /\ loc[c].pc = "r_open"
  /\ loc[c].k = loc[c].n
  /\ AllDone(c)
  /\ LET blk == OpenWaitCode(loc[c].res, loc[c].opened_ok)
         ub == \E i \in DOMAIN loc[c].res : loc[c].res[i] < 0
     IN  \E crash \in BOOLEAN :
           /\ crash => ub
           /\ IF crash
              THEN Set(c, [loc[c] EXCEPT !.pc = "done", !.ret = CRASH, !.ub = TRUE])
              ELSE Set(c, [loc[c] EXCEPT !.ret_code_blk = blk, !.ub = ub,
                             !.ictxs = NullFailed(c),
                             !.on_finishes = FreeFailed(c),
                             !.k = 0,
                             !.pc = IF blk # 0 THEN "r_cleanup" ELSE "r_issue"])
  /\ UNCHANGED <<Store, Aux>>

\* one round of the remove loop: get_snap_name, then start snap_remove
RemoveIssue(c) ==
  /\ loc[c].pc = "r_issue"
  /\ loc[c].k < loc[c].n
  /\ LET ref == loc[c].gs_snaps[loc[c].k + 1]
         r == get_snap_name_r(ref.image_id, ref.snap_id)
     IN  IF r < 0
         THEN Set(c, [loc[c] EXCEPT !.pc = "r_cleanup"])
         ELSE Set(c, [loc[c] EXCEPT !.k = @ + 1, !.ops[loc[c].k + 1] = "inflight"])
  /\ UNCHANGED <<Store, Aux>>

\* Operations::snap_remove completes on image i
SnapRemoveComplete(c, i) ==
  /\ loc[c].pc = "r_issue"
  /\ i \in DOMAIN loc[c].ops
  /\ loc[c].ops[i] = "inflight"
  /\ LET ref == loc[c].gs_snaps[i]
         im == ref.image_id
     IN  \E f \in Faults :
           IF f < 0
           THEN /\ Set(c, [loc[c] EXCEPT !.ops[i] = "done", !.res[i] = f,
                             !.faulted = TRUE])
                /\ UNCHANGED img_snaps
           ELSE /\ Set(c, [loc[c] EXCEPT !.ops[i] = "done",
                             !.res[i] = get_snap_name_r(im, ref.snap_id)])
                /\ img_snaps' = [img_snaps EXCEPT ![im] =
                                   {s \in @ : s.id # ref.snap_id}]
  /\ UNCHANGED <<snap_seq, group_snaps, members, img_seq, Aux, alloc_log>>

\* results the remove wait loop treats as failures: r < 0 && r != -ENOENT
RemoveErrors_mut(res) == [i \in DOMAIN res |-> 0]
RemoveErrors(res) == [i \in DOMAIN res |-> IF res[i] = ENOENT THEN 0 ELSE res[i]]

FreeRemoveFailed(c) ==
  [i \in DOMAIN loc[c].on_finishes |->
     IF RemoveErrors(loc[c].res)[i] < 0 THEN "freed" ELSE loc[c].on_finishes[i]]

\* wait for every snap_remove
RemoveWait(c) ==
  /\ loc[c].pc = "r_issue"
  /\ loc[c].k = loc[c].n
  /\ AllDone(c)
  /\ LET blk == LastError(RemoveErrors(loc[c].res))
     IN  Set(c, [loc[c] EXCEPT !.ret_code_blk = blk,
                   !.on_finishes = FreeRemoveFailed(c),
                   !.pc = IF blk # 0 THEN "r_cleanup" ELSE "r_record"])
  /\ UNCHANGED <<Store, Aux>>

\* cls_client::group_snap_remove of the record; falls through to cleanup
RemoveRecord(c) ==
  /\ loc[c].pc = "r_record"
  /\ \E f \in Faults :
       IF f < 0
       THEN /\ Set(c, [loc[c] EXCEPT !.pc = "r_cleanup", !.ret_code_blk = f,
                         !.faulted = TRUE])
            /\ UNCHANGED group_snaps
       ELSE /\ group_snaps' = Erase(group_snaps, loc[c].gs)
            /\ Set(c, [loc[c] EXCEPT !.pc = "r_cleanup"])
  /\ UNCHANGED <<snap_seq, members, img_snaps, img_seq, Aux, alloc_log>>

RemoveCleanup(c) ==
  /\ loc[c].pc = "r_cleanup"
  /\ Cleanup(c)
  /\ UNCHANGED <<Store, Aux>>

(* ------------------- group and membership bookkeeping ------------------ *)
\* what no group or membership call touches
NoSnap == <<img_snaps, img_seq, loc, hist, alloc_log, codec, pager>>

\* the header snapshot state, gone with the header object
Hdr == <<snap_seq, group_snaps>>

MSet(c, r) == mloc' = [mloc EXCEPT ![c] = r]

\* group_image_remove runs on its own or as a step of group_remove
Nested(c) == mloc[c].op = "group_remove"

\* a membership call returns r; inside group_remove the loop takes the result
MReturn(c, rec, r) ==
  IF Nested(c) /\ mloc[c].pc \in {"d_getid", "d_imgid", "d_set", "d_ref", "d_rm"}
  THEN MSet(c, [rec EXCEPT !.pc = "gr_check", !.r = r])
  ELSE MSet(c, [rec EXCEPT !.pc = "done", !.ret = r])

\* cls_client::dir_get_id on the group directory / the image directory
dir_get_id(entry) == IF entry = 0 THEN ENOENT ELSE 0
image_get_id(im) == IF img_dir[im] THEN 0 ELSE ENOENT

\* the header object of group id gid exists
HeaderOf(gid) == header /\ gid # 0 /\ gid = group_dir

\* cls_client::image_add_group: an image holds one back-reference at most
image_add_group(ref, gid) == IF ref \in {0, gid} THEN 0 ELSE EEXIST

\* cls_client::image_remove_group: not-found without a reference to gid
image_remove_group(ref, gid) == IF ref = gid THEN 0 ELSE ENOENT

incomplete_st == "INCOMPLETE"
attached_st_mut == "INCOMPLETE"
attached_st == "ATTACHED"

NoMembers == [im \in Images |-> "NONE"]

(* --------------------------- group_image_add --------------------------- *)
CallAttach(c, im) ==
  /\ mloc[c].pc = "idle"
  /\ loc[c].pc = "idle"
  /\ MSet(c, [IdleMLoc EXCEPT !.pc = "a_getid", !.op = "attach", !.im = im,
                !.pre = members[im], !.pre_ref = img_group[im]])
  /\ UNCHANGED <<Hdr, members, group_dir, header, img_group, img_dir, NoSnap>>

\* dir_get_id of the group
AttachGetId(c) ==
  /\ mloc[c].pc = "a_getid"
  /\ \E f \in Faults :
       IF f < 0 THEN MReturn(c, mloc[c], f)
       ELSE IF dir_get_id(group_dir) < 0
            THEN MReturn(c, mloc[c], dir_get_id(group_dir))
            ELSE MSet(c, [mloc[c] EXCEPT !.pc = "a_imgid", !.group_id = group_dir])
  /\ UNCHANGED <<Hdr, members, group_dir, header, img_group, img_dir, NoSnap>>

\* dir_get_id of the image
AttachImageId(c) ==
  /\ mloc[c].pc = "a_imgid"
  /\ \E f \in Faults :
       IF f < 0 THEN MReturn(c, mloc[c], f)
       ELSE IF image_get_id(mloc[c].im) < 0
            THEN MReturn(c, mloc[c], image_get_id(mloc[c].im))
            ELSE MSet(c, [mloc[c] EXCEPT !.pc = "a_set"])
  /\ UNCHANGED <<Hdr, members, group_dir, header, img_group, img_dir, NoSnap>>

\* step 1: group_image_set(incomplete_st)
AttachSetIncomplete(c) ==
  /\ mloc[c].pc = "a_set"
  /\ \E f \in Faults :
       IF f < 0
       THEN MReturn(c, mloc[c], f) /\ UNCHANGED members
       ELSE IF ~HeaderOf(mloc[c].group_id)
            THEN MReturn(c, mloc[c], ENOENT) /\ UNCHANGED members
            ELSE /\ members' = [members EXCEPT ![mloc[c].im] = incomplete_st]
                 /\ MSet(c, [mloc[c] EXCEPT !.pc = "a_ref"])
  /\ UNCHANGED <<Hdr, group_dir, header, img_group, img_dir, NoSnap>>

\* step 2: image_add_group; on failure go and take the entry back
AttachAddRef(c) ==
  /\ mloc[c].pc = "a_ref"
  /\ \E f \in Faults :
       LET r == IF f < 0 THEN f
                ELSE image_add_group(img_group[mloc[c].im], mloc[c].group_id)
       IN  IF r < 0
           THEN /\ MSet(c, [mloc[c] EXCEPT !.pc = "a_undo", !.r = r,
                              !.step2_failed = TRUE])
                /\ UNCHANGED img_group
           ELSE /\ img_group' = [img_group EXCEPT ![mloc[c].im] = mloc[c].group_id]
                /\ MSet(c, [mloc[c] EXCEPT !.pc = "a_attach"])
  /\ UNCHANGED <<Hdr, members, group_dir, header, img_dir, NoSnap>>

\* the clean up of step 1: group_image_remove, its result ignored
AttachUndo(c) ==
  /\ mloc[c].pc = "a_undo"
  /\ \E f \in Faults :
       IF f = 0 /\ HeaderOf(mloc[c].group_id)
       THEN /\ members' = [members EXCEPT ![mloc[c].im] = "NONE"]
            /\ MReturn(c, [mloc[c] EXCEPT !.undone = TRUE], mloc[c].r)
       ELSE /\ UNCHANGED members
            /\ MReturn(c, mloc[c], mloc[c].r)
  /\ UNCHANGED <<Hdr, group_dir, header, img_group, img_dir, NoSnap>>

\* step 3: group_image_set(attached_st); its result is the result of the call
AttachSetAttached(c) ==
  /\ mloc[c].pc = "a_attach"
  /\ \E f \in Faults :
       IF f < 0
       THEN MReturn(c, mloc[c], f) /\ UNCHANGED members
       ELSE IF ~HeaderOf(mloc[c].group_id)
            THEN MReturn(c, mloc[c], ENOENT) /\ UNCHANGED members
            ELSE /\ members' = [members EXCEPT ![mloc[c].im] = attached_st]
                 /\ MReturn(c, mloc[c], 0)
  /\ UNCHANGED <<Hdr, group_dir, header, img_group, img_dir, NoSnap>>

(* ------------------------- group_image_remove -------------------------- *)
CallDetach(c, im) ==
  /\ mloc[c].pc = "idle"
  /\ loc[c].pc = "idle"
  /\ MSet(c, [IdleMLoc EXCEPT !.pc = "d_getid", !.op = "detach", !.im = im,
                !.pre = members[im], !.pre_ref = img_group[im]])
  /\ UNCHANGED <<Hdr, members, group_dir, header, img_group, img_dir, NoSnap>>

\* dir_get_id of the group
DetachGetId(c) ==
  /\ mloc[c].pc = "d_getid"
  /\ \E f \in Faults :
       IF f < 0 THEN MReturn(c, mloc[c], f)
       ELSE IF dir_get_id(group_dir) < 0
            THEN MReturn(c, mloc[c], dir_get_id(group_dir))
            ELSE MSet(c, [mloc[c] EXCEPT !.pc = "d_imgid", !.group_id = group_dir])
  /\ UNCHANGED <<Hdr, members, group_dir, header, img_group, img_dir, NoSnap>>

\* dir_get_id of the image
DetachImageId(c) ==
  /\ mloc[c].pc = "d_imgid"
  /\ \E f \in Faults :
       IF f < 0 THEN MReturn(c, mloc[c], f)
       ELSE IF image_get_id(mloc[c].im) < 0
            THEN MReturn(c, mloc[c], image_get_id(mloc[c].im))
            ELSE MSet(c, [mloc[c] EXCEPT !.pc = "d_set"])
  /\ UNCHANGED <<Hdr, members, group_dir, header, img_group, img_dir, NoSnap>>

\* group_image_set(incomplete_st): put the entry into removing state
DetachSetIncomplete(c) ==
  /\ mloc[c].pc = "d_set"
  /\ \E f \in Faults :
       IF f < 0
       THEN MReturn(c, mloc[c], f) /\ UNCHANGED members
       ELSE IF ~HeaderOf(mloc[c].group_id)
            THEN MReturn(c, mloc[c], ENOENT) /\ UNCHANGED members
            ELSE /\ members' = [members EXCEPT ![mloc[c].im] = incomplete_st]
                 /\ MSet(c, [mloc[c] EXCEPT !.pc = "d_ref"])
  /\ UNCHANGED <<Hdr, group_dir, header, img_group, img_dir, NoSnap>>

\* image_remove_group; -ENOENT is not an error
DetachRemoveRef(c) ==
  /\ mloc[c].pc = "d_ref"
  /\ \E f \in Faults :
       LET r == IF f < 0 THEN f
                ELSE image_remove_group(img_group[mloc[c].im], mloc[c].group_id)
       IN  IF r < 0 /\ r # ENOENT
           THEN MReturn(c, mloc[c], r) /\ UNCHANGED img_group
           ELSE /\ img_group' = IF r = 0
                                THEN [img_group EXCEPT ![mloc[c].im] = 0]
                                ELSE img_group
                /\ MSet(c, [mloc[c] EXCEPT !.pc = "d_rm"])
  /\ UNCHANGED <<Hdr, members, group_dir, header, img_dir, NoSnap>>

\* cls_client::group_image_remove of the entry
DetachRemoveEntry(c) ==
  /\ mloc[c].pc = "d_rm"
  /\ \E f \in Faults :
       IF f < 0
       THEN MReturn(c, mloc[c], f) /\ UNCHANGED members
       ELSE IF ~HeaderOf(mloc[c].group_id)
            THEN MReturn(c, mloc[c], ENOENT) /\ UNCHANGED members
            ELSE /\ members' = [members EXCEPT ![mloc[c].im] = "NONE"]
                 /\ MReturn(c, mloc[c], 0)
  /\ UNCHANGED <<Hdr, group_dir, header, img_group, img_dir, NoSnap>>

\* the caller takes the result of a group or membership call
MemberReturn(c) ==
  /\ mloc[c].pc = "done"
  /\ MSet(c, IdleMLoc)
  /\ UNCHANGED <<Hdr, members, group_dir, header, img_group, img_dir, NoSnap>>

(* ---------------------------- group_create ----------------------------- *)
\* ids no directory entry and no image refers to: the new id is one of them
FreshIds ==
  {id \in 1..MaxGid : id # group_dir /\ \A im \in Images : img_group[im] # id}

CallGroupCreate(c) ==
  /\ mloc[c].pc = "idle"
  /\ loc[c].pc = "idle"
  /\ \E id \in FreshIds :
       MSet(c, [IdleMLoc EXCEPT !.pc = "g_add", !.op = "group_create",
                  !.group_id = id])
  /\ UNCHANGED <<Hdr, members, group_dir, header, img_group, img_dir, NoSnap>>

\* cls_client::group_dir_add: the name must be new
group_dir_add(entry) == IF entry # 0 THEN EEXIST ELSE 0

GroupDirAdd(c) ==
  /\ mloc[c].pc = "g_add"
  /\ \E f \in Faults :
       LET r == IF f < 0 THEN f ELSE group_dir_add(group_dir)
       IN  IF r < 0
           THEN MReturn(c, mloc[c], r) /\ UNCHANGED group_dir
           ELSE /\ group_dir' = mloc[c].group_id
                /\ MSet(c, [mloc[c] EXCEPT !.pc = "g_hdr"])
  /\ UNCHANGED <<Hdr, members, header, img_group, img_dir, NoSnap>>

\* cls_client::group_create of the header; on failure goto err_remove_from_dir
GroupHeaderCreate(c) ==
  /\ mloc[c].pc = "g_hdr"
  /\ \E f \in Faults :
       IF f < 0
       THEN /\ MSet(c, [mloc[c] EXCEPT !.pc = "g_undo", !.r = f,
                          !.hdr_failed = TRUE])
            /\ UNCHANGED <<Hdr, members, header>>
       ELSE /\ header' = TRUE
            /\ members' = NoMembers
            /\ snap_seq' = 0
            /\ group_snaps' = <<>>
            /\ MReturn(c, mloc[c], 0)
  /\ UNCHANGED <<group_dir, img_group, img_dir, NoSnap>>

\* err_remove_from_dir: group_dir_remove, remove_r only logged, return r
GroupCreateUndo(c) ==
  /\ mloc[c].pc = "g_undo"
  /\ \E remove_r \in Faults :
       IF remove_r < 0
       THEN /\ UNCHANGED group_dir
            /\ MReturn(c, mloc[c], mloc[c].r)
       ELSE /\ group_dir' = 0
            /\ MReturn(c, [mloc[c] EXCEPT !.undone = TRUE], mloc[c].r)
  /\ UNCHANGED <<Hdr, members, header, img_group, img_dir, NoSnap>>

(* ---------------------------- group_remove ----------------------------- *)
CallGroupRemove(c) ==
  /\ mloc[c].pc = "idle"
  /\ loc[c].pc = "idle"
  /\ MSet(c, [IdleMLoc EXCEPT !.pc = "gr_list", !.op = "group_remove"])
  /\ UNCHANGED <<Hdr, members, group_dir, header, img_group, img_dir, NoSnap>>

\* index of the first entry whose image name dir_get_name cannot resolve,
\* one past the end when every name resolves
FirstUnknown(entries) ==
  Min({j \in DOMAIN entries : ~img_dir[entries[j]]} \cup {Len(entries) + 1})

\* group_image_list as group_remove calls it: the result code and the images
\* pushed back before the call returned
ImageListOutcomes ==
  LET entries == group_image_list(members)
      stop == FirstUnknown(entries)
  IN  IF dir_get_id(group_dir) < 0
      THEN {[r |-> f, images |-> <<>>] : f \in InjErr \cup {dir_get_id(group_dir)}}
      ELSE IF ~header
      THEN {[r |-> f, images |-> <<>>] : f \in InjErr \cup {ENOENT}}
      ELSE {[r |-> f, images |-> <<>>] : f \in InjErr}
           \cup {[r |-> f, images |-> FirstN(entries, j - 1)] :
                   f \in InjErr, j \in 1..Min({stop, Len(entries)})}
           \cup {[r |-> IF stop <= Len(entries) THEN ENOENT ELSE 0,
                  images |-> FirstN(entries, stop - 1)]}

\* group_image_list, then the test r < 0 && r != -ENOENT
GroupRemoveList(c) ==
  /\ mloc[c].pc = "gr_list"
  /\ \E o \in ImageListOutcomes :
       IF o.r < 0 /\ o.r # ENOENT
       THEN MReturn(c, mloc[c], o.r)
       ELSE MSet(c, [mloc[c] EXCEPT !.pc = "gr_loop", !.images = o.images])
  /\ UNCHANGED <<Hdr, members, group_dir, header, img_group, img_dir, NoSnap>>

\* the loop over the listed images: call group_image_remove on the next one
GroupRemoveNext(c) ==
  /\ mloc[c].pc = "gr_loop"
  /\ IF mloc[c].k < Len(mloc[c].images)
     THEN MSet(c, [mloc[c] EXCEPT !.pc = "d_getid",
                     !.im = mloc[c].images[mloc[c].k + 1]])
     ELSE MSet(c, [mloc[c] EXCEPT !.pc = "gr_getid"])
  /\ UNCHANGED <<Hdr, members, group_dir, header, img_group, img_dir, NoSnap>>

\* the result of group_image_remove: r < 0 && r != -ENOENT ends the call
GroupRemoveCheck(c) ==
  /\ mloc[c].pc = "gr_check"
  /\ IF mloc[c].r < 0 /\ mloc[c].r # ENOENT
     THEN MReturn(c, mloc[c], mloc[c].r)
     ELSE MSet(c, [mloc[c] EXCEPT !.pc = "gr_loop", !.k = @ + 1])
  /\ UNCHANGED <<Hdr, members, group_dir, header, img_group, img_dir, NoSnap>>

\* dir_get_id of the group; -ENOENT leaves group_id empty
GroupRemoveGetId(c) ==
  /\ mloc[c].pc = "gr_getid"
  /\ \E f \in Faults :
       IF f < 0 THEN MReturn(c, mloc[c], f)
       ELSE MSet(c, [mloc[c] EXCEPT !.pc = "gr_hdr", !.group_id = group_dir])
  /\ UNCHANGED <<Hdr, members, group_dir, header, img_group, img_dir, NoSnap>>

\* io_ctx.remove(header_oid); -ENOENT is not an error
GroupRemoveHeader(c) ==
  /\ mloc[c].pc = "gr_hdr"
  /\ \E f \in Faults :
       IF f < 0
       THEN MReturn(c, mloc[c], f) /\ UNCHANGED <<Hdr, members, header>>
       ELSE IF ~HeaderOf(mloc[c].group_id)
            THEN /\ MSet(c, [mloc[c] EXCEPT !.pc = "gr_dir"])
                 /\ UNCHANGED <<Hdr, members, header>>
            ELSE /\ header' = FALSE
                 /\ members' = NoMembers
                 /\ snap_seq' = 0
                 /\ group_snaps' = <<>>
                 /\ MSet(c, [mloc[c] EXCEPT !.pc = "gr_dir", !.removed_hdr = TRUE,
                               !.dangling = \E im \in Images :
                                              img_group[im] = mloc[c].group_id])
  /\ UNCHANGED <<group_dir, img_group, img_dir, NoSnap>>

\* group_dir_remove; -ENOENT is not an error
GroupRemoveDir(c) ==
  /\ mloc[c].pc = "gr_dir"
  /\ \E f \in Faults :
       IF f < 0
       THEN MReturn(c, mloc[c], f) /\ UNCHANGED group_dir
       ELSE /\ group_dir' = IF group_dir = mloc[c].group_id THEN 0 ELSE group_dir
            /\ MReturn(c, mloc[c], 0)
  /\ UNCHANGED <<Hdr, members, header, img_group, img_dir, NoSnap>>

\* image removal, outside the group code: an image that refers to a group is
\* not removed; the image directory loses the name of a removed image
ImageRemove(im) ==
  /\ img_dir[im]
  /\ img_group[im] = 0
  /\ img_dir' = [img_dir EXCEPT ![im] = FALSE]
  /\ UNCHANGED <<Hdr, members, group_dir, header, img_group, mloc, NoSnap>>

(* --------------------------- metadata codec ---------------------------- *)
\* struct versions written by ENCODE_START
SnapStructV == 5
ParentStructV == 1
RBD_PROTECTION_STATUS_UNPROTECTED == 0
SNAPSHOT_TYPE_SELF_STANDING == 0
SNAPSHOT_TYPE_GROUP_MEMBER == 1

\* discriminants a newer writer may use and this decoder does not know
NewerTypes == {2}

SelfStandingSnapshot == [kind |-> "SelfStanding"]

GroupMemberSnapshot(pool, gid, sid) ==
  [kind |-> "GroupMember", group_pool |-> pool, group_id |-> gid,
   snapshot_id |-> sid]

\* cls_rbd_parent(): pool(-1), snapid(CEPH_NOSNAP), overlap(0)
DefaultParent == [pool |-> -1, id |-> "", snapid |-> NOSNAP, overlap |-> 0]

\* cls_rbd_snap(): the record a constructor leaves
DefaultSnap ==
  [id |-> NOSNAP, name |-> "", image_size |-> 0, features |-> 0,
   protection_status |-> RBD_PROTECTION_STATUS_UNPROTECTED,
   parent |-> DefaultParent, flags |-> 0, snapshot_ref |-> SelfStandingSnapshot]

\* values the runs draw from
Parents == {DefaultParent, [pool |-> 1, id |-> "foo", snapid |-> 3, overlap |-> 500]}

SnapshotRefs == {SelfStandingSnapshot, GroupMemberSnapshot(1, "g", "7")}

SnapRecs ==
  [id : {1, NOSNAP}, name : {"snap"}, image_size : {0, 123456}, features : {123},
   protection_status : {RBD_PROTECTION_STATUS_UNPROTECTED, 2},
   parent : Parents, flags : {0, 31}, snapshot_ref : SnapshotRefs]

\* records a decode may be handed as its target: a fresh one and a used one
Targets ==
  {DefaultSnap,
   [id |-> 9, name |-> "old", image_size |-> 1, features |-> 1,
    protection_status |-> 1,
    parent |-> [pool |-> 2, id |-> "bar", snapid |-> 4, overlap |-> 8],
    flags |-> 14, snapshot_ref |-> GroupMemberSnapshot(3, "h", "8")]}

\* ENCODE_START / ENCODE_FINISH: struct version, compat version, length, body
Frame(v, compat, body) == <<v, compat, Len(body)>> \o body

\* cls_rbd_parent::encode
cls_rbd_parent_encode(p) ==
  Frame(ParentStructV, 1, <<p.pool, p.id, p.snapid, p.overlap>>)

\* EncodeSnapshotTypeVisitor: the discriminant, then the payload of the variant
EncodeSnapshotType(ref) ==
  IF ref.kind = "SelfStanding" THEN <<SNAPSHOT_TYPE_SELF_STANDING>>
  ELSE <<SNAPSHOT_TYPE_GROUP_MEMBER, ref.group_pool, ref.group_id, ref.snapshot_id>>

\* cls_rbd_snap::encode
cls_rbd_snap_encode_mut(r) ==
  Frame(SnapStructV, 1,
        <<r.id, r.name, r.image_size, r.features>>
        \o cls_rbd_parent_encode(r.parent)
        \o <<r.protection_status, 0>>
        \o EncodeSnapshotType(r.snapshot_ref))
cls_rbd_snap_encode(r) ==
  Frame(SnapStructV, 1,
        <<r.id, r.name, r.image_size, r.features>>
        \o cls_rbd_parent_encode(r.parent)
        \o <<r.protection_status, r.flags>>
        \o EncodeSnapshotType(r.snapshot_ref))

\* the bytes a writer of struct version v < 5 produced for r: the fields that
\* version had, in the order the decoder reads them
OldEncode(r, v) ==
  Frame(v, 1,
        <<r.id, r.name, r.image_size, r.features>>
        \o (IF v >= 2 THEN cls_rbd_parent_encode(r.parent) ELSE <<>>)
        \o (IF v >= 3 THEN <<r.protection_status>> ELSE <<>>)
        \o (IF v >= 4 THEN <<r.flags>> ELSE <<>>))

\* the bytes of a newer writer: a discriminant this decoder does not know and
\* the payload of that variant
NewerEncode(r, type) ==
  Frame(SnapStructV, 1,
        <<r.id, r.name, r.image_size, r.features>>
        \o cls_rbd_parent_encode(r.parent)
        \o <<r.protection_status, r.flags>>
        \o <<type, "x", "y">>)

\* DECODE_START: version and length framing of the struct that starts at p;
\* fails when the data asks for a newer decoder or runs past the buffer
FrameOk(bl, p, v) ==
  /\ p + 2 <= Len(bl)
  /\ bl[p + 1] <= v
  /\ p + 2 + bl[p + 2] <= Len(bl)

FrameEnd(bl, p) == p + 2 + bl[p + 2]

\* cls_rbd_parent::decode of the struct that starts at index p
cls_rbd_parent_decode(bl, p) ==
  IF ~FrameOk(bl, p, ParentStructV) \/ p + 6 > FrameEnd(bl, p)
  THEN [err |-> TRUE, rec |-> DefaultParent, next |-> p]
  ELSE [err |-> FALSE,
        rec |-> [pool |-> bl[p + 3], id |-> bl[p + 4], snapid |-> bl[p + 5],
                 overlap |-> bl[p + 6]],
        next |-> FrameEnd(bl, p) + 1]

\* the switch on snap_type and the DecodeSnapshotTypeVisitor call: the variant
\* and the index after its payload
DecodeSnapshotType(bl, p) ==
  IF bl[p] = SNAPSHOT_TYPE_GROUP_MEMBER
  THEN [ref |-> GroupMemberSnapshot(bl[p + 1], bl[p + 2], bl[p + 3]),
        next |-> p + 4]
  ELSE [ref |-> SelfStandingSnapshot, next |-> p + 1]

\* cls_rbd_snap::decode into the record t
cls_rbd_snap_decode(bl, t) ==
  IF ~FrameOk(bl, 1, SnapStructV) \/ FrameEnd(bl, 1) < 7
  THEN [err |-> TRUE, rec |-> t]
  ELSE
    LET struct_v == bl[1]
        end == FrameEnd(bl, 1)
        par == IF struct_v >= 2 THEN cls_rbd_parent_decode(bl, 8)
               ELSE [err |-> FALSE, rec |-> t.parent, next |-> 8]
        p3 == par.next
        p4 == IF struct_v >= 3 THEN p3 + 1 ELSE p3
        p5 == IF struct_v >= 4 THEN p4 + 1 ELSE p4
        short == par.err \/ p5 - 1 > end \/ (struct_v >= 5 /\ p5 > end)
        ref == IF struct_v >= 5 THEN DecodeSnapshotType(bl, p5)
               ELSE [ref |-> SelfStandingSnapshot, next |-> p5]
    IN  IF short \/ ref.next - 1 > end
        THEN [err |-> TRUE, rec |-> t]
        ELSE [err |-> FALSE,
              rec |-> [id |-> bl[4], name |-> bl[5], image_size |-> bl[6],
                       features |-> bl[7],
                       parent |-> par.rec,
                       protection_status |-> IF struct_v >= 3 THEN bl[p3]
                                             ELSE t.protection_status,
                       flags |-> IF struct_v >= 4 THEN bl[p4] ELSE t.flags,
                       snapshot_ref |-> ref.ref]]

\* everything but the codec run
NoCodec == <<Store, loc, hist, Mem, pager>>

\* one run: the record r to write, the record t handed to decode
InitCodec ==
  /\ snap_seq = 0
  /\ group_snaps = <<>>
  /\ members = NoMembers
  /\ img_snaps = [im \in Images |-> {}]
  /\ img_seq = [im \in Images |-> 0]
  /\ loc = [c \in Clients |-> IdleLoc]
  /\ hist = ""
  /\ alloc_log = <<>>
  /\ group_dir = 1
  /\ header = TRUE
  /\ img_group = [im \in Images |-> 0]
  /\ img_dir = [im \in Images |-> TRUE]
  /\ mloc = [c \in Clients |-> IdleMLoc]
  /\ codec \in [pc : {"start"}, what : {"none"}, struct_v : {0}, r : SnapRecs,
                t : Targets, pre : Targets, bl : {<<>>}, err : {FALSE}]
  /\ codec.pre = codec.t
  /\ pager = IdlePager

\* cls_rbd_snap::encode of r
EncodeSnap ==
  /\ codec.pc = "start"
  /\ codec' = [codec EXCEPT !.pc = "encoded", !.what = "snap",
                 !.struct_v = SnapStructV, !.bl = cls_rbd_snap_encode(codec.r)]
  /\ UNCHANGED NoCodec

\* r as an older writer left it on disk
EncodeOld(v) ==
  /\ codec.pc = "start"
  /\ codec' = [codec EXCEPT !.pc = "encoded", !.what = "old", !.struct_v = v,
                 !.bl = OldEncode(codec.r, v)]
  /\ UNCHANGED NoCodec

\* r as a newer writer left it on disk
EncodeNewer(type) ==
  /\ codec.pc = "start"
  /\ codec' = [codec EXCEPT !.pc = "encoded", !.what = "newer",
                 !.struct_v = SnapStructV, !.bl = NewerEncode(codec.r, type)]
  /\ UNCHANGED NoCodec

\* cls_rbd_snap::decode of the bytes into t
DecodeSnap ==
  /\ codec.pc = "encoded"
  /\ codec.what # "parent"
  /\ LET d == cls_rbd_snap_decode(codec.bl, codec.t)
     IN  codec' = [codec EXCEPT !.pc = "decoded", !.t = d.rec, !.err = d.err]
  /\ UNCHANGED NoCodec

\* cls_rbd_parent::encode of the parent of r
EncodeParent ==
  /\ codec.pc = "start"
  /\ codec' = [codec EXCEPT !.pc = "encoded", !.what = "parent",
                 !.struct_v = ParentStructV,
                 !.bl = cls_rbd_parent_encode(codec.r.parent)]
  /\ UNCHANGED NoCodec

\* cls_rbd_parent::decode of the bytes into the parent of t
DecodeParent ==
  /\ codec.pc = "encoded"
  /\ codec.what = "parent"
  /\ LET d == cls_rbd_parent_decode(codec.bl, 1)
     IN  codec' = [codec EXCEPT !.pc = "decoded", !.err = d.err,
                     !.t = [codec.t EXCEPT !.parent = IF d.err THEN @ ELSE d.rec]]
  /\ UNCHANGED NoCodec

(* -------------------------- paginated listings ----------------------- *)
\* everything but the listing run
NoList == <<Store, loc, hist, Mem, codec>>

\* sizes of the listed map: a few entries, and sizes around the page size
Totals == 0..5 \cup {max_read - 1, max_read, max_read + 1, 2 * max_read + 1}

\* a cls_client list call on a map whose keys are 1..total, in key order:
\* the entries after key start, max of them at most
PageOf(total, start, max) ==
  [i \in 1..(IF total - start < max THEN total - start ELSE max) |-> start + i]

\* the key a page ends with; the start stays when the page is empty
LastKey(page, start) == IF page = <<>> THEN start ELSE page[Len(page)]

\* a default-constructed start key (GroupImageSpec(), GroupSnapshot(), "")
NoKey == 0

CallList(op, total) ==
  /\ pager.pc = "idle"
  /\ pager' = [pc |-> "page", op |-> op, total |-> total, last_read |-> NoKey,
               start |-> NoKey, prev_last |-> NoKey, out |-> <<>>, pages |-> 0,
               ret |-> 0]
  /\ UNCHANGED NoList

\* group_list: last_read lives outside the loop and is advanced by every page
GroupListPage ==
  /\ pager.pc = "page" /\ pager.op = "group_list"
  /\ pager.pages < MaxPages
  /\ \E f \in Faults :
       IF f < 0 THEN pager' = [pager EXCEPT !.pc = "done", !.ret = f]
       ELSE LET groups == PageOf(pager.total, pager.last_read, max_read)
                r == Len(groups)
            IN  pager' = [pager EXCEPT
                  !.start = pager.last_read,
                  !.prev_last = LastKey(pager.out, NoKey),
                  !.out = @ \o groups,
                  !.last_read = LastKey(groups, @),
                  !.pages = @ + 1,
                  !.pc = IF r = max_read THEN "page" ELSE "done"]
  /\ UNCHANGED NoList

\* group_image_list: start_last is declared in the loop body, so every page
\* request is made with a fresh start_last and the assignment after the call
\* is lost at the end of the iteration
ImageListPage ==
  /\ pager.pc = "page" /\ pager.op = "image_list"
  /\ pager.pages < MaxPages
  /\ \E f \in Faults :
       IF f < 0 THEN pager' = [pager EXCEPT !.pc = "done", !.ret = f]
       ELSE LET start_last == NoKey
                image_ids_page == PageOf(pager.total, start_last, max_read)
                r == Len(image_ids_page)
            IN  pager' = [pager EXCEPT
                  !.start = start_last,
                  !.prev_last = LastKey(pager.out, NoKey),
                  !.out = @ \o image_ids_page,
                  !.pages = @ + 1,
                  !.pc = IF r = max_read THEN "page" ELSE "resolve"]
  /\ UNCHANGED NoList

\* group_image_list: dir_get_name of every listed image
ImageListResolve ==
  /\ pager.pc = "resolve"
  /\ \E f \in Faults : pager' = [pager EXCEPT !.pc = "done", !.ret = f]
  /\ UNCHANGED NoList

\* group_snap_list_cls: snap_last is declared in the loop body and never set;
\* r is the result code of the call, 0 on success, so the loop ends after the
\* first page
SnapListPage ==
  /\ pager.pc = "page" /\ pager.op = "snap_list"
  /\ pager.pages < MaxPages
  /\ \E f \in Faults :
       IF f < 0 THEN pager' = [pager EXCEPT !.pc = "done", !.ret = f]
       ELSE LET snap_last == NoKey
                snaps_page == PageOf(pager.total, snap_last, max_read)
                r == 0
            IN  pager' = [pager EXCEPT
                  !.start = snap_last,
                  !.prev_last = LastKey(pager.out, NoKey),
                  !.out = @ \o snaps_page,
                  !.pages = @ + 1,
                  !.pc = IF r = max_read THEN "page" ELSE "done"]
  /\ UNCHANGED NoList

ListReturn ==
  /\ pager.pc = "done"
  /\ pager' = IdlePager
  /\ UNCHANGED NoList

(* --------------------------- specification ----------------------------- *)
CreateStep(c) ==
  \/ \E nm \in Names : CallCreate(c, nm)
  \/ CreateNameCheck(c)
  \/ CreateGetId(c)
  \/ CreateOpen(c)
  \/ \E i \in 1..Cardinality(Images) : OpenComplete(c, i)
  \/ CreateOpenWait(c)
  \/ CreateBlock(c)
  \/ CreateRequestLock(c)
  \/ \E i \in 1..Cardinality(Images) : LockComplete(c, i)
  \/ CreateLockWait(c)
  \/ CreateNextSeq(c)
  \/ CreatePending(c)
  \/ \E i \in 1..Cardinality(Images) : SnapCreateComplete(c, i)
  \/ CreateSnapWait(c)
  \/ CreateCommit(c)
  \/ CreateCleanup(c)
  \/ Return(c)

RemoveStep(c) ==
  \/ \E nm \in Names : CallRemove(c, nm)
  \/ RemoveGetId(c)
  \/ RemoveList(c)
  \/ RemoveOpenIssue(c)
  \/ RemoveOpenWait(c)
  \/ RemoveIssue(c)
  \/ \E i \in 1..Cardinality(Images) : SnapRemoveComplete(c, i)
  \/ RemoveWait(c)
  \/ RemoveRecord(c)
  \/ RemoveCleanup(c)

\* calls run one after another, issued by one caller
Next == CreateStep("c1") \/ RemoveStep("c1")

Spec == Init /\ [][Next]_vars

\* group_snap_create calls of different clients interleave at every step
NextConc == \E c \in Clients : CreateStep(c)

SpecConc == Init /\ [][NextConc]_vars

AttachStep(c) ==
  \/ \E im \in Images : CallAttach(c, im)
  \/ AttachGetId(c)
  \/ AttachImageId(c)
  \/ AttachSetIncomplete(c)
  \/ AttachAddRef(c)
  \/ AttachUndo(c)
  \/ AttachSetAttached(c)
  \/ MemberReturn(c)

DetachStep(c) ==
  \/ \E im \in Images : CallDetach(c, im)
  \/ DetachGetId(c)
  \/ DetachImageId(c)
  \/ DetachSetIncomplete(c)
  \/ DetachRemoveRef(c)
  \/ DetachRemoveEntry(c)

GroupStep(c) ==
  \/ CallGroupCreate(c)
  \/ GroupDirAdd(c)
  \/ GroupHeaderCreate(c)
  \/ GroupCreateUndo(c)
  \/ CallGroupRemove(c)
  \/ GroupRemoveList(c)
  \/ GroupRemoveNext(c)
  \/ GroupRemoveCheck(c)
  \/ GroupRemoveGetId(c)
  \/ GroupRemoveHeader(c)
  \/ GroupRemoveDir(c)

\* group and membership calls run one after another, issued by one caller,
\* while images without a group may be removed
NextGroup ==
  \/ AttachStep("c1")
  \/ DetachStep("c1")
  \/ GroupStep("c1")
  \/ \E im \in Images : ImageRemove(im)

SpecGroup == Init /\ [][NextGroup]_vars

\* group_image_add and group_image_remove calls of different clients
\* interleave at every object-store call
NextAttach == \E c \in Clients : AttachStep(c) \/ DetachStep(c)

SpecAttach == Init /\ [][NextAttach]_vars

\* one caller attaches images and takes group snapshots, one call at a time
NextSnapMember == CreateStep("c1") \/ AttachStep("c1")

SpecSnapMember == Init /\ [][NextSnapMember]_vars

\* encode / decode runs of the snapshot record and the parent record
NextCodec ==
  \/ EncodeSnap
  \/ \E v \in 1..(SnapStructV - 1) : EncodeOld(v)
  \/ \E type \in NewerTypes : EncodeNewer(type)
  \/ DecodeSnap
  \/ EncodeParent
  \/ DecodeParent

SpecCodec == InitCodec /\ [][NextCodec]_vars

\* runs of the listing loops, one at a time
NextList ==
  \/ \E op \in {"group_list", "image_list", "snap_list"}, total \in Totals :
       CallList(op, total)
  \/ GroupListPage
  \/ ImageListPage
  \/ ImageListResolve
  \/ SnapListPage
  \/ ListReturn

SpecList == Init /\ [][NextList]_vars

(* ------------------------------ claims --------------------------------- *)
Returned(c, op) == loc[c].pc = "done" /\ loc[c].op = op /\ loc[c].ret # CRASH

MemberImages == {im \in Images : members[im] # "NONE"}

HasSnapId(im, sid) == \E s \in img_snaps[im] : s.id = sid

HasSnapNamed(im, nm) == \E s \in img_snaps[im] : s.name = nm

RecordsNamed(nm, st) ==
  {id \in DOMAIN group_snaps :
     group_snaps[id].name = nm /\ group_snaps[id].state = st}

\* C1: when group_snap_create returns 0 the header holds a record of the given
\* name in state COMPLETE, its snaps list has exactly one entry per image of
\* the group's membership map, and every entry names a snapshot that exists on
\* its image (the one this call created) at that moment.
C1_CreateSuccessRecord ==
  \A c \in Clients :
    (Returned(c, "create") /\ loc[c].ret = 0) =>
      \E id \in RecordsNamed(loc[c].snap_name, "COMPLETE") :
        LET snaps == group_snaps[id].snaps
        IN  /\ Len(snaps) = Cardinality(MemberImages)
            /\ \A im \in MemberImages :
                 Cardinality({j \in DOMAIN snaps : snaps[j].image_id = im}) = 1
            /\ \A j \in DOMAIN snaps :
                 /\ HasSnapId(snaps[j].image_id, snaps[j].snap_id)
                 /\ get_snap_id(snaps[j].image_id,
                                ind_snap_name(loc[c].snap_name, id)) = snaps[j].snap_id

C1_Witness ==
  \E c \in Clients :
    /\ Returned(c, "create") /\ loc[c].ret = 0
    /\ loc[c].n = 2
    /\ \E id \in RecordsNamed(loc[c].snap_name, "COMPLETE") :
         Len(group_snaps[id].snaps) = 2

\* C2 as stated: when group_snap_create returns an error, whatever the error,
\* the header holds no COMPLETE record under the name passed to the call.
C2_Original ==
  \A c \in Clients :
    (Returned(c, "create") /\ loc[c].ret < 0) =>
      RecordsNamed(loc[c].snap_name, "COMPLETE") = {}

\* C2 amended: when group_snap_create returns an error and no COMPLETE record
\* of that name existed when the call started, the header holds no COMPLETE
\* record under that name: a failed call never leaves a COMPLETE record behind.
C2_FailedCreateNoComplete ==
  \A c \in Clients :
    (Returned(c, "create") /\ loc[c].ret < 0 /\ loc[c].pre # "COMPLETE") =>
      RecordsNamed(loc[c].snap_name, "COMPLETE") = {}

C2_Witness ==
  \E c \in Clients :
    /\ Returned(c, "create") /\ loc[c].ret < 0 /\ loc[c].pre = "none"
    /\ loc[c].saved
    /\ \E im \in MemberImages :
         HasSnapNamed(im, ind_snap_name(loc[c].snap_name, loc[c].snap_seq))

\* C3: when group_snap_create returns after it allocated its sequence number,
\* either every image of the membership list carries the per-image snapshot
\* named <snap_name>_<group_id>_<seq> of this attempt, or none does.
C3_AllOrNothing ==
  \A c \in Clients :
    (Returned(c, "create") /\ loc[c].snap_seq # 0) =>
      LET nm == ind_snap_name(loc[c].snap_name, loc[c].snap_seq)
      IN  \/ \A i \in DOMAIN loc[c].images : HasSnapNamed(loc[c].images[i], nm)
          \/ \A i \in DOMAIN loc[c].images : ~HasSnapNamed(loc[c].images[i], nm)

\* C4: the sequence numbers handed out for the group are strictly increasing
\* in allocation order, also when calls interleave; two attempts never hold
\* the same number and every record is filed under a number that was handed
\* out to the attempt that wrote it.
C4_SeqMonotonic ==
  /\ \A i, j \in DOMAIN alloc_log : i < j => alloc_log[i] < alloc_log[j]
  /\ \A c, d \in Clients :
       (c # d /\ loc[c].snap_seq # 0) => loc[c].snap_seq # loc[d].snap_seq
  /\ \A id \in DOMAIN group_snaps : id \in Range(alloc_log)
  /\ \A c \in Clients :
       loc[c].saved => group_snaps[loc[c].snap_seq].name = loc[c].snap_name

C4_Witness ==
  /\ Len(alloc_log) = 2
  /\ \A c \in Clients : loc[c].pc = "c_pending"

\* a create call still untouched by its own effects: nothing opened, no
\* operation started, no sequence number, no record written
NothingStarted(c) ==
  /\ loc[c].pc \in {"c_check", "done"}
  /\ loc[c].ictxs = <<>> /\ loc[c].ops = <<>>
  /\ loc[c].snap_seq = 0 /\ ~loc[c].saved

C7_RemoveTwice ==
  \A c \in Clients :
    (Returned(c, "remove") /\ ~loc[c].faulted) =>
      /\ loc[c].gs # 0 /\ hist # loc[c].snap_name => loc[c].ret = 0
      /\ hist = loc[c].snap_name => loc[c].ret = ENOENT

\* C8: group_snap_remove on a record that is not COMPLETE removes the record
\* from the header, opens no image and returns 0.
C8_RemovePending ==
  \A c \in Clients :
    (Returned(c, "remove") /\ ~loc[c].faulted
       /\ loc[c].gs # 0 /\ loc[c].gs_state # "COMPLETE") =>
      /\ loc[c].ret = 0
      /\ loc[c].gs \notin DOMAIN group_snaps
      /\ loc[c].ictxs = <<>>

\* C9: group_snap_remove on a COMPLETE record that finds an opened image with
\* another id than the recorded one returns -EAGAIN, has started no
\* snap_remove and leaves the record in the header.
C9_MismatchAborts ==
  \A c \in Clients :
    (Returned(c, "remove")
       /\ \E i \in DOMAIN loc[c].opened_ok : ~loc[c].opened_ok[i]) =>
      /\ loc[c].ret = EAGAIN
      /\ \A i \in DOMAIN loc[c].ops : loc[c].ops[i] = "done"
      /\ loc[c].gs \in DOMAIN group_snaps

\* C10: a group_snap_remove retried on a COMPLETE record, after an earlier
\* attempt removed the snapshot of some image and then failed, returns 0,
\* leaves no per-image snapshot of the record and removes the record, when
\* nothing fails underneath during the retry.
C10_RetrySucceeds ==
  \A c \in Clients :
    (Returned(c, "remove") /\ ~loc[c].faulted
       /\ loc[c].gs_state = "COMPLETE" /\ loc[c].partial) =>
      /\ loc[c].ret = 0
      /\ loc[c].gs \notin DOMAIN group_snaps
      /\ \A j \in DOMAIN loc[c].gs_snaps : RefMissing(loc[c].gs_snaps[j])

MReturned(c, op) == mloc[c].pc = "done" /\ mloc[c].op = op

\* C11: when group_image_add returns 0 the group header has an entry for the
\* image in state ATTACHED and the image header refers back to the group; when
\* group_image_remove returns 0 the group header has no entry for the image
\* and the image header holds no reference to the group.
C11_MembershipSymmetry ==
  \A c \in Clients :
    /\ (MReturned(c, "attach") /\ mloc[c].ret = 0) =>
         /\ members[mloc[c].im] = "ATTACHED"
         /\ img_group[mloc[c].im] = mloc[c].group_id
    /\ (MReturned(c, "detach") /\ mloc[c].ret = 0) =>
         /\ members[mloc[c].im] = "NONE"
         /\ img_group[mloc[c].im] # mloc[c].group_id

\* a detach that succeeds on an image of the re-created group: the image was
\* attached by a successful group_image_add before
C11_Witness ==
  \E c \in Clients :
    /\ MReturned(c, "detach") /\ mloc[c].ret = 0
    /\ mloc[c].pre = "ATTACHED" /\ mloc[c].pre_ref = 2 /\ mloc[c].group_id = 2

\* a group_image_add or group_image_remove on image im has started and has
\* not returned yet
InProgress(im) ==
  \E c \in Clients : mloc[c].pc \notin {"idle", "done"} /\ mloc[c].im = im

\* C12: in every reachable state, under any interleaving of group_image_add
\* and group_image_remove calls, failing ones included: an ATTACHED entry of
\* the group header implies that the image refers back to the group, a
\* back-reference of an image implies that the group header has an entry for
\* it, and an entry is never INCOMPLETE with no call in progress on the image
\* after a call on it returned success.
C12_LinkInvariant ==
  \A im \in Images :
    /\ members[im] = "ATTACHED" => img_group[im] = group_dir
    /\ img_group[im] = group_dir => members[im] # "NONE"
    /\ (members[im] = "INCOMPLETE" /\ ~InProgress(im)) =>
         \A c \in Clients :
           ~(mloc[c].pc = "done" /\ mloc[c].im = im /\ mloc[c].ret = 0)

\* C13: when step 2 of group_image_add (image_add_group) fails, the call
\* returns the error of step 2, the entry written by step 1 is gone when the
\* compensating group_image_remove succeeded, and the image header holds no
\* back-reference to the group.
C13_Step2Rollback ==
  \A c \in Clients :
    (MReturned(c, "attach") /\ mloc[c].step2_failed) =>
      /\ mloc[c].ret = mloc[c].r /\ mloc[c].ret < 0
      /\ mloc[c].undone => members[mloc[c].im] = "NONE"
      /\ img_group[mloc[c].im] # mloc[c].group_id

\* C14: when group_create added the directory entry and the header
\* initialisation failed, the call returns an error and the entry is removed
\* again; when that removal fails too, the caller is told so: the result is
\* not the plain header error it gets after a clean rollback.  group_create
\* never returns 0 while the directory entry exists without its header.
C14_CreateRollback ==
  \A c \in Clients :
    MReturned(c, "group_create") =>
      /\ mloc[c].hdr_failed =>
           /\ mloc[c].ret < 0
           /\ mloc[c].undone => group_dir = 0
           /\ ~mloc[c].undone => mloc[c].ret # mloc[c].r
      /\ mloc[c].ret = 0 => ~(group_dir # 0 /\ ~header)

\* C15: group_remove removes the header object only after every member image
\* was detached: at the moment the header is removed, and when the call
\* returns 0, no image header refers back to the group, also when listing or
\* detaching a member reported -ENOENT.
C15_DetachBeforeHeader ==
  \A c \in Clients :
    mloc[c].op = "group_remove" =>
      /\ ~mloc[c].dangling
      /\ (mloc[c].pc = "done" /\ mloc[c].ret = 0 /\ mloc[c].group_id # 0) =>
           \A im \in Images : img_group[im] # mloc[c].group_id

\* C16: group_snap_create opens, locks and snapshots only images whose
\* membership entry is ATTACHED when the call lists the members: every image
\* of the list the call works on had an ATTACHED entry at the listing step,
\* so an INCOMPLETE image is never opened.
C16_AttachedOnly ==
  [][\A c \in Clients :
       (loc[c].pc = "c_list" /\ loc'[c].pc = "c_open") =>
         \A i \in DOMAIN loc'[c].images :
           members[loc'[c].images[i]] = "ATTACHED"]_vars

\* C17: when two group_snap_create calls with the same name run concurrently
\* on the group, the name check and the write of the PENDING record let one
\* of them through at most: the header never holds two records of one name,
\* and two calls with the same name never both return 0.
C17_OneRacerWins ==
  /\ \A nm \in Names :
       Cardinality({id \in DOMAIN group_snaps : group_snaps[id].name = nm}) <= 1
  /\ \A c, d \in Clients :
       (c # d /\ Returned(c, "create") /\ Returned(d, "create")
          /\ loc[c].snap_name = loc[d].snap_name) =>
         ~(loc[c].ret = 0 /\ loc[d].ret = 0)

\* both calls passed the name check and got a number; one wrote its record
\* and returned 0, the other was turned away at the write
C17_Witness ==
  \E c, d \in Clients :
    /\ c # d /\ loc[c].snap_name = loc[d].snap_name
    /\ Returned(c, "create") /\ loc[c].ret = 0
    /\ Returned(d, "create") /\ loc[d].ret = EEXIST
    /\ loc[d].snap_seq # 0 /\ ~loc[d].saved

\* C18: decoding the bytes cls_rbd_snap::encode produced for any record r
\* (self-standing or group-member reference, any parent) into a fresh record
\* gives a record equal to r in every field, and the same holds for
\* cls_rbd_parent.
C18_RoundTrip ==
  (codec.pc = "decoded" /\ codec.pre = DefaultSnap) =>
    /\ codec.what = "snap" => ~codec.err /\ codec.t = codec.r
    /\ codec.what = "parent" => ~codec.err /\ codec.t.parent = codec.r.parent

C18_Witness ==
  /\ codec.pc = "decoded" /\ codec.what = "snap" /\ codec.pre = DefaultSnap
  /\ codec.r.snapshot_ref.kind = "GroupMember"
  /\ codec.r.parent # DefaultParent /\ codec.r.flags # 0
  /\ codec.t = codec.r

\* C19: decoding a record whose snapshot-ref discriminant is a value the
\* decoder does not know does not fail and yields the Unknown variant.
C19_UnknownVariant ==
  (codec.pc = "decoded" /\ codec.what = "newer") =>
    ~codec.err /\ codec.t.snapshot_ref.kind = "Unknown"

\* C20: decoding a record written at struct version v, 1 <= v < 5, succeeds
\* and leaves every field introduced after v at its default, whatever the
\* target held before: parent undefined for v < 2, protection_status
\* UNPROTECTED for v < 3, flags 0 for v < 4, snapshot_ref self-standing.
C20_OldVersionDefaults ==
  (codec.pc = "decoded" /\ codec.what = "old") =>
    /\ ~codec.err
    /\ codec.struct_v < 2 => codec.t.parent = DefaultParent
    /\ codec.struct_v < 3 =>
         codec.t.protection_status = RBD_PROTECTION_STATUS_UNPROTECTED
    /\ codec.struct_v < 4 => codec.t.flags = 0
    /\ codec.t.snapshot_ref = SelfStandingSnapshot

\* the per-image snapshot of record id exists on image im
SnapOfRecord(im, id) ==
  id \in DOMAIN group_snaps /\ HasSnapNamed(im, ind_snap_name(group_snaps[id].name, id))

\* the record of sequence number id turns COMPLETE in this step
TurnsComplete(id) ==
  /\ id \in DOMAIN group_snaps'
  /\ group_snaps'[id].state = "COMPLETE"
  /\ ~(id \in DOMAIN group_snaps /\ group_snaps[id].state = "COMPLETE")

\* C21: in group_snap_create the PENDING record (snaps empty) is in the header
\* before a per-image snap_create is issued and while the snap_create calls
\* run; the record turns COMPLETE only in a step of a call whose snap_create
\* has completed with success on every member image; and group_snap_create
\* never leaves a record COMPLETE while a member image lacks the snapshot of
\* that sequence number.
C21_PendingFirstCompleteLast ==
  /\ [](\A c \in Clients :
          loc[c].pc = "c_snap" =>
            /\ loc[c].snap_seq \in DOMAIN group_snaps
            /\ group_snaps[loc[c].snap_seq] =
                 [name |-> loc[c].snap_name, state |-> "PENDING", snaps |-> <<>>])
  /\ [](\A im \in Images : \A s \in img_snaps[im] :
          /\ s.name[2] \in DOMAIN group_snaps
          /\ group_snaps[s.name[2]].name = s.name[1])
  /\ [][\A id \in 1..MaxSeq :
          TurnsComplete(id) =>
            \E c \in Clients :
              /\ loc[c].pc = "c_commit" /\ loc[c].snap_seq = id
              /\ loc[c].n = Cardinality(MemberImages)
              /\ \A i \in 1..loc[c].n :
                   /\ loc[c].ops[i] = "done" /\ loc[c].res[i] = 0
                   /\ SnapOfRecord(loc[c].images[i], id)]_vars
  /\ [](\A id \in DOMAIN group_snaps :
          group_snaps[id].state = "COMPLETE" =>
            /\ \A im \in MemberImages : SnapOfRecord(im, id)
            /\ \A im \in MemberImages :
                 \E j \in DOMAIN group_snaps[id].snaps :
                   /\ group_snaps[id].snaps[j].image_id = im
                   /\ HasSnapId(im, group_snaps[id].snaps[j].snap_id))

\* one creator has committed its record over two images while the other
\* creator's snap_create calls are still running under a PENDING record
C21_Witness ==
  \E c, d \in Clients :
    /\ loc[c].pc = "c_cleanup" /\ loc[c].n = 2 /\ loc[c].ret_code = 0
    /\ loc[c].snap_seq \in DOMAIN group_snaps
    /\ group_snaps[loc[c].snap_seq].state = "COMPLETE"
    /\ loc[d].pc = "c_snap"
    /\ \E i \in 1..loc[d].n : loc[d].ops[i] = "inflight"

\* the record of sequence number id leaves the header in this step
RecordRemoved(id) == id \in DOMAIN group_snaps /\ id \notin DOMAIN group_snaps'

LockRequested(c, i) ==
  /\ loc[c].pc # "c_lock" /\ loc'[c].pc = "c_lock"
  /\ i \in DOMAIN loc'[c].ops /\ loc'[c].ops[i] = "inflight"

\* every handle of call c is frozen and holds its lock
AllFrozenAndLocked(c) ==
  \A i \in 1..loc[c].n : loc[c].blocked[i] /\ loc[c].locked[i]

C24_WaitsForIssued ==
  \A c \in Clients :
    /\ loc[c].pc \in {"c_cleanup", "r_cleanup"} => AllDone(c)
    /\ loc[c].pc = "done" =>
         /\ ~loc[c].dropped
         /\ \A i \in DOMAIN loc[c].ictxs :
              loc[c].ictxs[i] = "closed" => loc[c].ops[i] # "inflight"

\* the result of the first failing operation, in membership order
FirstError(res) ==
  LET bad == {i \in DOMAIN res : res[i] < 0}
  IN  IF bad = {} THEN 0 ELSE res[Min(bad)]

\* C25: when per-image operations of one phase of group_snap_create (open,
\* lock request, snap_create) fail, the call returns the error of the first
\* failing image in membership order, not that of a later one.
C25_FirstErrorReturned ==
  \A c \in Clients :
    (Returned(c, "create") /\ \E i \in DOMAIN loc[c].res : loc[c].res[i] < 0) =>
      loc[c].ret = FirstError(loc[c].res)

\* the keys 1..total, each once, in key order
AllKeys(total) == [i \in 1..total |-> i]

\* the listing loop has ended or was cut off at the page bound
ListDone(op) == pager.pc \in {"resolve", "done"} /\ pager.op = op /\ pager.ret = 0

\* C26: group_image_list terminates and returns every entry of the membership
\* map exactly once, for any number of entries, also when there are as many as
\* a page holds (1024) or more: every page request after the first starts
\* from the last key the previous page returned.
C26_ImageListPaging ==
  (pager.pc # "idle" /\ pager.op = "image_list") =>
    /\ pager.pages > 1 => pager.start = pager.prev_last
    /\ Len(pager.out) <= pager.total
    /\ pager.pages <= (pager.total \div max_read) + 1
    /\ ListDone("image_list") => pager.out = AllKeys(pager.total)

\* C27: group_snap_list_cls returns every record of the header exactly once,
\* for any number of records, more than a page (1024) included, so that the
\* name check of group_snap_create and the lookup of group_snap_remove see
\* every record.
C27_SnapListComplete ==
  ListDone("snap_list") =>
    /\ pager.out = AllKeys(pager.total)
    /\ \A id \in 1..pager.total : \E i \in DOMAIN pager.out : pager.out[i] = id

\* group_list returns every directory entry once, whatever their number
GroupListComplete ==
  ListDone("group_list") => pager.out = AllKeys(pager.total)

\* C28: group_snap_remove on a COMPLETE record returns 0 only if no record of
\* the given name is in the header when the call returns; a call that gave
\* the removal up (name lookup, open, identity check, get_snap_name,
\* snap_remove or the record removal failed) returns a negative error code.
C28_SuccessMeansRemoved ==
  \A c \in Clients :
    (Returned(c, "remove") /\ loc[c].gs_state = "COMPLETE") =>
      /\ loc[c].ret = 0 =>
           \A id \in DOMAIN group_snaps : group_snaps[id].name # loc[c].snap_name
      /\ (loc[c].gs # 0 /\ loc[c].gs \in DOMAIN group_snaps) => loc[c].ret < 0

\* C29: when group_snap_create or group_snap_remove returns after it started
\* to open images, cleanup has touched exactly the handles and completions
\* that were created: no null handle was dereferenced, no completion deleted
\* twice, no index past the created handles accessed, and every handle that
\* was opened is closed.
C29_CleanupExact ==
  \A c \in Clients :
    loc[c].pc = "done" =>
      /\ ~loc[c].ub
      /\ loc[c].ret # CRASH
      /\ \A i \in DOMAIN loc[c].ictxs : loc[c].ictxs[i] # "ctx"
====
